---- MODULE Spec2Model ----
(***************************************************************************)
(* State-machine model of utils/compressor.py (Crystal Clear Audio         *)
(* Compressor): main(), CrystalClearCompressor.bulk_compress,              *)
(* process_single_file, compress_audio and the naming helpers.             *)
(*                                                                         *)
(* Strings are sequences of one-character strings; a path is the sequence  *)
(* of its components below the source directory.                           *)
(***************************************************************************)
EXTENDS Integers, Sequences, FiniteSets, TLC

\* ------------------------------------------------------------------ bounds
\* number of candidate filenames that may lie in the source directory
MaxFiles == 3
\* largest valid --workers value the model runs a pool with
MaxWorkers == 2
\* number of environment events over the invocations: transient faults of the
\* external tools and changes an external actor makes to the directory
MaxFaults == 1
\* number of consecutive bulk runs on the same directory
MaxRuns == 2
\* number of pieces (a letter, a digit, a dash or an extension's text) before
\* the extension of a filename given to the naming functions
MaxPieces == 3

\* ------------------------------------------------------- program constants
\* main: "if max_workers < 1 or max_workers > 8"
MinWorkersAllowed == 1
MaxWorkersAllowed == 8
\* main: add_argument('--workers', type=int, default=4)
DefaultWorkers == 4

\* ----------------------------------------------------------------- strings
Letters ==
  {"A","B","C","D","E","F","G","H","I","J","K","L","M","N","O","P","Q","R",
   "S","T","U","V","W","X","Y","Z","a","b","c","d","e","f","g","h","i","j",
   "k","l","m","n","o","p","q","r","s","t","u","v","w","x","y","z"}

Digits == {"0","1","2","3","4","5","6","7","8","9"}

ExtMp3 == <<".", "m", "p", "3">>

ExtM4a == <<".", "m", "4", "a">>

\* s[i..] starts with pat
StartsAt(s, i, pat) ==
  /\ i + Len(pat) - 1 <= Len(s)
  /\ \A k \in 1..Len(pat) : s[i + k - 1] = pat[k]

RECURSIVE ReplaceFrom(_, _, _, _)
ReplaceFrom(s, i, pat, new) ==
  IF i > Len(s) THEN <<>>
  ELSE IF StartsAt(s, i, pat)
       THEN new \o ReplaceFrom(s, i + Len(pat), pat, new)
       ELSE <<s[i]>> \o ReplaceFrom(s, i + 1, pat, new)

\* str.replace(pat, new): every non-overlapping occurrence, left to right
Replace(s, pat, new) == ReplaceFrom(s, 1, pat, new)

\* length of the leading run of letters: re.match(r'([A-Za-z]+)', s)
RECURSIVE LetterRun(_, _)
LetterRun(s, i) ==
  IF i <= Len(s) /\ s[i] \in Letters THEN LetterRun(s, i + 1) ELSE i - 1

\* re.sub(r'\d+$', '', s)
RECURSIVE StripTrailingDigits(_)
StripTrailingDigits(s) ==
  IF Len(s) > 0 /\ s[Len(s)] \in Digits
  THEN StripTrailingDigits(SubSeq(s, 1, Len(s) - 1))
  ELSE s

extract_base_name(filename) ==
  LET name_without_ext == Replace(Replace(filename, ExtMp3, <<>>), ExtM4a, <<>>)
      n == LetterRun(name_without_ext, 1)
  IN  IF n > 0 THEN SubSeq(name_without_ext, 1, n)
      ELSE StripTrailingDigits(name_without_ext)

\* os.path.join below the source directory: an empty component adds nothing
PathJoin(dir, name) == IF name = <<>> THEN dir ELSE Append(dir, name)

\* bulk_compress: input path, output directory and output file of a filename
InputPath(filename) == PathJoin(<<>>, filename)

OutputPath(filename) ==
  LET base_name == extract_base_name(filename)
      output_dir == PathJoin(<<>>, base_name)
  IN  PathJoin(output_dir, Replace(filename, ExtM4a, ExtMp3))


\* ------------------------------------------------------------- file system
\* candidate filenames, in the directory's listing order
AllNames ==
  << <<"A","1",".","m","p","3">>,
     <<"A","1",".","m","4","a">>,
     <<"7",".","m","p","3">>,
     <<"B","2",".","m","p","3">> >>

NameCount == IF MaxFiles < Len(AllNames) THEN MaxFiles ELSE Len(AllNames)

Names == {AllNames[i] : i \in 1..NameCount}

\* an output path given on the command line that lacks the .mp3 extension
WavOut == << <<"o",".","w","a","v">> >>

InputPaths == {InputPath(n) : n \in Names}

OutputPaths == {OutputPath(n) : n \in Names}

Paths == InputPaths \cup OutputPaths \cup {WavOut}

\* file contents: no file, a zero-byte file, a recording (good: the encoder
\* can decode it), or the encoder's output for the recording src
NoFile == [kind |-> "none", src |-> <<>>, good |-> FALSE]

EmptyFile == [kind |-> "empty", src |-> <<>>, good |-> FALSE]

Audio(p, g) == [kind |-> "audio", src |-> p, good |-> g]

Encoded(c) == [kind |-> "enc", src |-> c.src, good |-> TRUE]

\* an output left by an earlier invocation
OldOutput == [kind |-> "enc", src |-> <<>>, good |-> TRUE]

VARIABLES
  fs,          \* path -> content: the shared file system
  args,        \* the parsed command line
  ffmpegOK,    \* whether "ffmpeg -version" exits zero
  mainpc,      \* position of main() / bulk_compress on the main thread
  exitCode,    \* sys.exit status, -1 while running
  file_tasks,  \* bulk_compress: the task tuples
  queue,       \* the executor's work queue: indices of tasks not yet taken
  futures,     \* task index -> state of its future
  results,     \* bulk_compress: the report being folded
  th,          \* thread -> locals of process_single_file / compress_audio
  print_lock,  \* holder of self.print_lock, -1 when free
  run,         \* number of the current invocation on this directory
  extDone,     \* paths an external actor has changed
  faults,      \* number of transient tool faults so far
  hist,        \* history of encoder launches, writes and deletions
  naming,      \* bulk_compress, "Prepare file info": a filename and the
               \* base name and output path built from it
  stdout       \* the output stream: the task of the last line printed, the
               \* tasks that have lines in it, and whether lines of one task
               \* were found apart

vars == <<fs, args, ffmpegOK, mainpc, exitCode, file_tasks, queue,
          futures, results, th, print_lock, run, extDone, faults, hist,
          naming, stdout>>

\* os.path.exists / os.path.getsize == 0
Exists(f, p) == f[p].kind # "none"

\* a size test that no file passes
IsEmpty_Never(f, p) == f[p].kind = "empty" /\ f[p].kind = "none"

IsEmpty(f, p) == f[p].kind = "empty"

EndsWith(s, suf) ==
  /\ Len(s) >= Len(suf)
  /\ SubSeq(s, Len(s) - Len(suf) + 1, Len(s)) = suf

\* glob.glob(os.path.join(directory, "*" + ext)): the existing entries of the
\* directory itself whose name ends with ext (hidden names are not matched)
Glob(f, ext) ==
  LET hit(i) == /\ InputPath(AllNames[i]) \in DOMAIN f
                /\ Exists(f, InputPath(AllNames[i]))
                /\ EndsWith(AllNames[i], ext)
                /\ AllNames[i][1] # "."
      idx == SelectSeq([i \in 1..NameCount |-> i], LAMBDA i : hit(i))
  IN  [k \in 1..Len(idx) |-> AllNames[idx[k]]]

get_mp3_files(f) == Glob(f, ExtMp3) \o Glob(f, ExtM4a)

\* bulk_compress, "Prepare file info": the task tuple of the i-th file
FileTask(audio_files, i) ==
  [input_file  |-> InputPath(audio_files[i]),
   output_file |-> OutputPath(audio_files[i]),
   filename    |-> audio_files[i],
   file_index  |-> i,
   total_files |-> Len(audio_files)]


\* ------------------------------------------------------------------- state
\* thread 0 is the main thread, 1..MaxWorkers the pool's worker threads
Threads == 0..MaxWorkers

NoPath == <<>>

\* locals of a thread that is not inside process_single_file / compress_audio
Idle ==
  [pc |-> "idle", task |-> 0, input_file |-> NoPath, output_file |-> NoPath,
   delete_source |-> FALSE, enc |-> "", data |-> NoFile,
   success |-> FALSE, error |-> <<>>, skip |-> FALSE, status |-> ""]

Pending == [state |-> "pending", status |-> "", error |-> <<>>]

NoResults ==
  [error |-> <<>>, total_files |-> 0, processed |-> 0, skipped |-> 0,
   failed |-> 0, errors |-> <<>>]

NoHist ==
  [psf      |-> [p \in InputPaths |-> 0],   \* process_single_file runs, this run
   launches |-> [p \in InputPaths |-> 0],   \* encoder launches, this run
   writes   |-> {},     \* [path, input, existed]: the encoder's writes, the
                        \* input they encode and whether a file was there
   dels     |-> {},     \* os.remove calls done: the path, the function and
                        \* thread that called, its task, the encoder's exit
                        \* it followed, whether the output existed then and
                        \* whether the caller had seen the success result
   delFailed |-> {},    \* sources a deletion after a transcode did not
                        \* remove: os.remove raised, or the file was gone
   encFail  |-> {},     \* inputs whose encoder invocation failed, this run
   outcome  |-> [p \in InputPaths |-> ""],  \* outcome of the input's task
   empty0   |-> {},     \* inputs that were zero bytes when discovered
   outAtStart |-> {},   \* inputs whose output existed when their task started
   raced    |-> {},     \* inputs an external actor changed after discovery,
                        \* before their task had started the encoder or ended
   fs0      |-> [p \in Paths |-> NoFile],   \* the file system at discovery
   prevOK   |-> {},     \* inputs that ended Success in an earlier run
   prevFailed |-> 0]    \* failed count of the previous run's report

\* nothing has been printed for any task
NoOutput == [last |-> 0, seen |-> {}, mixed |-> FALSE]

\* no filename is being prepared
NoNaming ==
  [filename |-> <<>>, base_name |-> <<>>, output_file |-> NoPath,
   prepared |-> FALSE]

\* the command lines the model starts from
ArgSets ==
  [bulk_compress : {TRUE}, workers : {0, 9} \cup (1..MaxWorkers),
   quiet : BOOLEAN, input_file : {NoPath}, output_file : {NoPath}]
  \cup
  [bulk_compress : {FALSE}, workers : {0, DefaultWorkers}, quiet : BOOLEAN,
   input_file : {NoPath, InputPath(AllNames[1])},
   output_file : {NoPath, OutputPath(AllNames[1]), WavOut}]

\* the directory contents the model starts from
InitialFs ==
  {f \in [Paths -> {NoFile, EmptyFile, OldOutput}
                   \cup {Audio(p, g) : p \in InputPaths, g \in BOOLEAN}] :
     /\ \A p \in InputPaths :
          f[p] \in {NoFile, EmptyFile, Audio(p, TRUE), Audio(p, FALSE)}
     /\ \A p \in Paths \ InputPaths : f[p] \in {NoFile, OldOutput}
     /\ WavOut \notin InputPaths => f[WavOut] = NoFile}

Init ==
  /\ fs \in InitialFs
  /\ args \in ArgSets
  /\ ffmpegOK \in BOOLEAN
  /\ mainpc = "check_ffmpeg"
  /\ exitCode = -1
  /\ file_tasks = <<>>
  /\ queue = <<>>
  /\ futures = <<>>
  /\ results = NoResults
  /\ th = [t \in Threads |-> Idle]
  /\ print_lock = -1
  /\ run = 1
  /\ extDone = {}
  /\ faults = 0
  /\ hist = NoHist
  /\ naming = NoNaming
  /\ stdout = NoOutput

\* ------------------------------------------------------------------ main()
\* sys.exit(code)
Exit(code) == mainpc' = "exit" /\ exitCode' = code

\* main: "if not compressor.check_ffmpeg(): ... sys.exit(1)"
CheckFfmpeg ==
  /\ mainpc = "check_ffmpeg"
  /\ IF ffmpegOK THEN mainpc' = "dispatch" /\ UNCHANGED exitCode
                 ELSE Exit(1)
  /\ UNCHANGED <<stdout, naming, fs, args, ffmpegOK, file_tasks, queue,
                 futures, results, th, print_lock, run, extDone, faults,
                 hist>>

\* the range test without its upper limit
ValidWorkers_LowerOnly(n) == ~(n < MinWorkersAllowed)

ValidWorkers(n) == ~(n < MinWorkersAllowed \/ n > MaxWorkersAllowed)

\* main: the bulk branch up to the call of bulk_compress, and the check of the
\* positional arguments of single-file mode
Dispatch ==
  /\ mainpc = "dispatch"
  /\ IF args.bulk_compress
     THEN IF ValidWorkers(args.workers)
          THEN mainpc' = "bulk_start" /\ UNCHANGED exitCode
          ELSE Exit(1)
     ELSE IF args.input_file = NoPath \/ args.output_file = NoPath
          THEN Exit(1)
          ELSE mainpc' = "single_validate" /\ UNCHANGED exitCode
  /\ UNCHANGED <<stdout, naming, fs, args, ffmpegOK, file_tasks, queue,
                 futures, results, th, print_lock, run, extDone, faults,
                 hist>>

UpperCase == <<"A","B","C","D","E","F","G","H","I","J","K","L","M","N","O",
               "P","Q","R","S","T","U","V","W","X","Y","Z">>

LowerCase == <<"a","b","c","d","e","f","g","h","i","j","k","l","m","n","o",
               "p","q","r","s","t","u","v","w","x","y","z">>

\* str.lower()
Lower(s) ==
  [k \in 1..Len(s) |->
     IF \E j \in 1..Len(UpperCase) : UpperCase[j] = s[k]
     THEN LowerCase[CHOOSE j \in 1..Len(UpperCase) : UpperCase[j] = s[k]]
     ELSE s[k]]

\* main: "Validate arguments" up to the call of compress_audio; response is
\* the answer to "Continue anyway? (y/N)"
SingleValidate ==
  /\ mainpc = "single_validate"
  /\ IF ~Exists(fs, args.input_file)
     THEN Exit(1) /\ UNCHANGED th
     ELSE \E response \in {"y", "n"} :
            IF /\ ~EndsWith(Lower(args.output_file[Len(args.output_file)]), ExtMp3)
               /\ Lower(<<response>>) # <<"y">>
            THEN Exit(0) /\ UNCHANGED th
            ELSE /\ mainpc' = "single_call"
                 /\ th' = [th EXCEPT ![0] =
                             [Idle EXCEPT !.pc = "ca_exists",
                                          !.input_file = args.input_file,
                                          !.output_file = args.output_file,
                                          !.delete_source = TRUE]]
                 /\ UNCHANGED exitCode
  /\ UNCHANGED <<stdout, naming, fs, args, ffmpegOK, file_tasks, queue,
                 futures, results, print_lock, run, extDone, faults, hist>>


\* ---------------------------------------------------------- thread control
\* the thread moves on inside its function
Goto(t, loc) ==
  /\ th' = [th EXCEPT ![t] = loc]
  /\ UNCHANGED <<futures, mainpc, exitCode>>

\* print(...): lines of the result of task i are appended to the output
\* stream; they lie apart from the task's earlier lines when the stream's last
\* line belongs to another task
PrintLine(i) ==
  stdout' = [last  |-> i,
             seen  |-> stdout.seen \cup {i},
             mixed |-> stdout.mixed \/ (i \in stdout.seen /\ stdout.last # i)]

\* an exception leaves the function: on a worker it is stored in the task's
\* future; on the main thread nothing catches it and the interpreter exits 1
Raise(t, msg) ==
  /\ th' = [th EXCEPT ![t] = Idle]
  /\ IF t = 0
     THEN Exit(1) /\ UNCHANGED futures
     ELSE /\ futures' = [futures EXCEPT ![th[t].task] =
                           [state |-> "raised", status |-> "", error |-> msg]]
          /\ UNCHANGED <<mainpc, exitCode>>

HistRaise(t) ==
  [hist EXCEPT !.outcome[th[t].input_file] = "failed",
               !.encFail = @ \cup {th[t].input_file}]

\* compress_audio returns (success, info) to its caller
CaReturn(t, ok, err, skip) ==
  Goto(t, [th[t] EXCEPT !.pc = IF t = 0 THEN "ca_done" ELSE "psf_lock",
                        !.success = ok, !.error = err, !.skip = skip,
                        !.data = NoFile])

\* ---------------------------------------------------------- compress_audio
\* "if not os.path.exists(input_file): return False, {error}"
CaExists(t) ==
  /\ th[t].pc = "ca_exists"
  /\ IF ~Exists(fs, th[t].input_file)
     THEN CaReturn(t, FALSE, <<"Input file not found: ">> \o th[t].input_file, FALSE)
     ELSE Goto(t, [th[t] EXCEPT !.pc = "ca_size"])
  /\ UNCHANGED <<stdout, naming, fs, args, ffmpegOK, file_tasks, queue,
                 results, print_lock, run, extDone, faults, hist>>

\* "input_size = os.path.getsize(input_file); if input_size == 0: return
\* False, {error, skip: True}"; getsize raises when the file is gone
CaSize(t) ==
  /\ th[t].pc = "ca_size"
  /\ IF ~Exists(fs, th[t].input_file)
     THEN Raise(t, <<"FileNotFoundError">>) /\ hist' = HistRaise(t)
     ELSE /\ IF IsEmpty(fs, th[t].input_file)
             THEN CaReturn(t, FALSE, <<"Input file is empty (0 bytes): ">> \o th[t].input_file, TRUE)
             ELSE Goto(t, [th[t] EXCEPT !.pc = "ca_probe"])
          /\ UNCHANGED hist
  /\ UNCHANGED <<stdout, naming, fs, args, ffmpegOK, file_tasks, queue,
                 results, print_lock, run, extDone, faults>>

\* whether the environment may still produce an event
CanFault == Cardinality(extDone) + faults < MaxFaults

\* the exception of a metadata probe that could not be started
ProbeError == <<"FileNotFoundError: ffprobe">>

\* get_audio_info: ffprobe's outcome. A non-zero exit or unparsable output
\* gives None; a missing ffprobe raises FileNotFoundError, which is not caught
ProbeOutcomes == IF CanFault THEN {"info", "none", "raise"} ELSE {"info", "none"}

\* "input_info = self.get_audio_info(input_file)" and the creation of the
\* output directory
CaProbe(t) ==
  /\ th[t].pc = "ca_probe"
  /\ \E probe \in ProbeOutcomes :
       IF probe = "raise"
       THEN /\ Raise(t, ProbeError)
            /\ hist' = HistRaise(t)
            /\ faults' = faults + 1
       ELSE Goto(t, [th[t] EXCEPT !.pc = "ca_run"]) /\ UNCHANGED <<hist, faults>>
  /\ UNCHANGED <<stdout, naming, fs, args, ffmpegOK, file_tasks, queue,
                 results, print_lock, run, extDone>>

\* what "ffmpeg -y -i input ... output" does with an input of content c: it
\* writes the output and exits zero ("ok"), exits non-zero with or without
\* text on stderr ("fail", "fail_quiet"), exits zero without an output
\* ("nooutput"), or cannot be started ("oserror")
NormalOutcome(c) ==
  IF c.kind \in {"audio", "enc"} /\ c.good THEN "ok" ELSE "fail"

EncoderOutcomes(c) ==
  IF CanFault
  THEN {NormalOutcome(c), "fail", "fail_quiet", "nooutput", "oserror"}
  ELSE {NormalOutcome(c)}

\* "result = subprocess.run(cmd, ...)": the encoder is started
CaLaunch(t) ==
  /\ th[t].pc = "ca_run"
  /\ \E o \in EncoderOutcomes(fs[th[t].input_file]) :
       IF o = "oserror"
       THEN /\ Raise(t, <<"OSError: ffmpeg">>)
            /\ hist' = HistRaise(t)
            /\ faults' = faults + 1
       ELSE /\ Goto(t, [th[t] EXCEPT !.pc = "ca_wait", !.enc = o,
                                     !.data = fs[th[t].input_file]])
            /\ hist' = [hist EXCEPT !.launches[th[t].input_file] = @ + 1]
            /\ faults' = IF o = NormalOutcome(fs[th[t].input_file])
                         THEN faults ELSE faults + 1
  /\ UNCHANGED <<stdout, naming, fs, args, ffmpegOK, file_tasks, queue,
                 results, print_lock, run, extDone>>

\* the message without the fallback to str(e)
ErrorMsg_StderrOnly(stderr) == stderr

\* "error_msg = e.stderr if e.stderr else str(e)"
ErrorMsg(stderr) ==
  IF stderr # <<>> THEN stderr ELSE <<"Command returned non-zero exit status">>

\* the encoder exits: with -y it writes its output whatever is at the path
CaExit(t) ==
  /\ th[t].pc = "ca_wait"
  /\ IF th[t].enc = "ok"
     THEN /\ fs' = [fs EXCEPT ![th[t].output_file] = Encoded(th[t].data)]
          /\ hist' = [hist EXCEPT !.writes = @ \cup
                        {[path |-> th[t].output_file,
                          input |-> th[t].input_file,
                          existed |-> Exists(fs, th[t].output_file)]}]
          /\ Goto(t, [th[t] EXCEPT !.pc = "ca_check"])
     ELSE IF th[t].enc = "nooutput"
     THEN /\ Goto(t, [th[t] EXCEPT !.pc = "ca_check"])
          /\ UNCHANGED <<fs, hist>>
     ELSE /\ CaReturn(t, FALSE,
                      ErrorMsg(IF th[t].enc = "fail" THEN <<"ffmpeg: error">> ELSE <<>>),
                      FALSE)
          /\ hist' = [hist EXCEPT !.encFail = @ \cup {th[t].input_file}]
          /\ UNCHANGED fs
  /\ UNCHANGED <<stdout, naming, args, ffmpegOK, file_tasks, queue, results,
                 print_lock, run, extDone, faults>>

\* "if os.path.exists(output_file): ... output_info = get_audio_info(...)
\* ... else: return False, {error: Output file was not created}"
CaCheck(t) ==
  /\ th[t].pc = "ca_check"
  /\ IF Exists(fs, th[t].output_file)
     THEN \E probe \in ProbeOutcomes :
            IF probe = "raise"
            THEN /\ Raise(t, ProbeError)
                 /\ hist' = HistRaise(t)
                 /\ faults' = faults + 1
            ELSE /\ IF th[t].delete_source
                    THEN Goto(t, [th[t] EXCEPT !.pc = "ca_delete"])
                    ELSE CaReturn(t, TRUE, <<>>, FALSE)
                 /\ UNCHANGED <<hist, faults>>
     ELSE /\ CaReturn(t, FALSE, <<"Output file was not created">>, FALSE)
          /\ hist' = [hist EXCEPT !.encFail = @ \cup {th[t].input_file}]
          /\ UNCHANGED faults
  /\ UNCHANGED <<stdout, naming, fs, args, ffmpegOK, file_tasks, queue,
                 results, print_lock, run, extDone>>

\* os.remove's outcome: it may raise OSError (caught by every caller)
RemoveOutcomes == IF CanFault THEN {"removed", "oserror"} ELSE {"removed"}

\* "if os.path.exists(p): os.remove(p)" inside try/except OSError, done by
\* function `by` on thread t; observed: the caller saw the success result;
\* h: the history before the call
TryRemove(t, p, by, observed, h) ==
  IF Exists(fs, p)
  THEN \E r \in RemoveOutcomes :
         IF r = "removed"
         THEN /\ fs' = [fs EXCEPT ![p] = NoFile]
              /\ hist' = [h EXCEPT !.dels = @ \cup
                            {[path |-> p, by |-> by, thread |-> t,
                              task |-> th[t].task, enc |-> th[t].enc,
                              out |-> Exists(fs, th[t].output_file),
                              observed |-> observed]}]
              /\ UNCHANGED faults
         ELSE /\ faults' = faults + 1
              /\ hist' = [h EXCEPT !.delFailed = @ \cup {p}]
              /\ UNCHANGED fs
  ELSE hist' = [h EXCEPT !.delFailed = @ \cup {p}] /\ UNCHANGED <<fs, faults>>

\* "if delete_source: try: if os.path.exists(input_file): os.remove(...)",
\* then "return True, info"
CaDelete(t) ==
  /\ th[t].pc = "ca_delete"
  /\ TryRemove(t, th[t].input_file, "compress_audio", FALSE, hist)
  /\ CaReturn(t, TRUE, <<>>, FALSE)
  /\ UNCHANGED <<stdout, naming, args, ffmpegOK, file_tasks, queue, results,
                 print_lock, run, extDone>>


\* ----------------------------------------------------- process_single_file
\* the function returns a result that skips the file, after printing it
Skip(t, err) ==
  Goto(t, [th[t] EXCEPT !.pc = "psf_lock", !.status = "skipped", !.error = err])

\* PsfOut without the test of the output path
PsfOut_NoCheck(t) ==
  /\ th[t].pc = "psf_out"
  /\ Goto(t, [th[t] EXCEPT !.pc = "psf_in"])
  /\ UNCHANGED <<stdout, naming, fs, args, ffmpegOK, file_tasks, queue,
                 results, print_lock, run, extDone, faults, hist>>

\* "if os.path.exists(output_file): ... return {status: skipped}"
PsfOut(t) ==
  /\ th[t].pc = "psf_out"
  /\ IF Exists(fs, th[t].output_file)
     THEN Skip(t, <<>>)
     ELSE Goto(t, [th[t] EXCEPT !.pc = "psf_in"])
  /\ UNCHANGED <<stdout, naming, fs, args, ffmpegOK, file_tasks, queue,
                 results, print_lock, run, extDone, faults, hist>>

\* "if not os.path.exists(input_file): ... return {status: skipped, error}"
PsfIn(t) ==
  /\ th[t].pc = "psf_in"
  /\ IF ~Exists(fs, th[t].input_file)
     THEN Skip(t, <<"Input file not found">>)
     ELSE Goto(t, [th[t] EXCEPT !.pc = "psf_size"])
  /\ UNCHANGED <<stdout, naming, fs, args, ffmpegOK, file_tasks, queue,
                 results, print_lock, run, extDone, faults, hist>>

\* PsfSize calling compress_audio inside "with self.print_lock:"
PsfSize_UnderLock(t) ==
  /\ th[t].pc = "psf_size"
  /\ print_lock = -1
  /\ IF ~Exists(fs, th[t].input_file)
     THEN Raise(t, <<"FileNotFoundError">>) /\ hist' = HistRaise(t)
                                            /\ UNCHANGED print_lock
     ELSE /\ IF IsEmpty(fs, th[t].input_file)
             THEN Skip(t, <<"Empty file">>) /\ UNCHANGED print_lock
             ELSE /\ Goto(t, [th[t] EXCEPT !.pc = "ca_exists",
                                           !.delete_source = FALSE])
                  /\ print_lock' = t
          /\ UNCHANGED hist
  /\ UNCHANGED <<stdout, naming, fs, args, ffmpegOK, file_tasks, queue,
                 results, run, extDone, faults>>

\* PsfSize calling compress_audio with its default delete_source=True
PsfSize_DefaultDelete(t) ==
  /\ th[t].pc = "psf_size"
  /\ IF ~Exists(fs, th[t].input_file)
     THEN Raise(t, <<"FileNotFoundError">>) /\ hist' = HistRaise(t)
     ELSE /\ IF IsEmpty(fs, th[t].input_file)
             THEN Skip(t, <<"Empty file">>)
             ELSE Goto(t, [th[t] EXCEPT !.pc = "ca_exists",
                                        !.delete_source = TRUE])
          /\ UNCHANGED hist
  /\ UNCHANGED <<stdout, naming, fs, args, ffmpegOK, file_tasks, queue,
                 results, print_lock, run, extDone, faults>>

\* "input_size = os.path.getsize(input_file); if input_size == 0: ... return
\* {status: skipped, error}", else the call of compress_audio(input_file,
\* output_file, verbose=False, delete_source=False)
PsfSize(t) ==
  /\ th[t].pc = "psf_size"
  /\ IF ~Exists(fs, th[t].input_file)
     THEN Raise(t, <<"FileNotFoundError">>) /\ hist' = HistRaise(t)
     ELSE /\ IF IsEmpty(fs, th[t].input_file)
             THEN Skip(t, <<"Empty file">>)
             ELSE Goto(t, [th[t] EXCEPT !.pc = "ca_exists",
                                        !.delete_source = FALSE])
          /\ UNCHANGED hist
  /\ UNCHANGED <<stdout, naming, fs, args, ffmpegOK, file_tasks, queue,
                 results, print_lock, run, extDone, faults>>

\* the status of the result built from compress_audio's (success, info)
Classify(success, skip) ==
  IF success THEN "success" ELSE IF skip THEN "skipped" ELSE "failed"

\* PsfLock printing without taking the lock
PsfLock_NoLock(t) ==
  /\ th[t].pc = "psf_lock"
  /\ PrintLine(th[t].task)
  /\ LET status == IF th[t].status # "" THEN th[t].status
                   ELSE Classify(th[t].success, th[t].skip)
     IN  Goto(t, [th[t] EXCEPT !.status = status,
                    !.pc = IF status = "success" THEN "psf_delete" ELSE "psf_ret"])
  /\ UNCHANGED <<naming, fs, args, ffmpegOK, file_tasks, queue, results,
                 print_lock, run, extDone, faults, hist>>

\* PsfLock with the deletion outside "if success:"
PsfLock_AlwaysDelete(t) ==
  /\ th[t].pc = "psf_lock"
  /\ print_lock = -1
  /\ print_lock' = t
  /\ PrintLine(th[t].task)
  /\ LET status == IF th[t].status # "" THEN th[t].status
                   ELSE Classify(th[t].success, th[t].skip)
     IN  Goto(t, [th[t] EXCEPT !.status = status, !.pc = "psf_delete"])
  /\ UNCHANGED <<naming, fs, args, ffmpegOK, file_tasks, queue, results, run,
                 extDone, faults, hist>>

\* "with self.print_lock:" and the first lines printed for the task
PsfLock(t) ==
  /\ th[t].pc = "psf_lock"
  /\ print_lock = -1
  /\ print_lock' = t
  /\ PrintLine(th[t].task)
  /\ LET status == IF th[t].status # "" THEN th[t].status
                   ELSE Classify(th[t].success, th[t].skip)
     IN  Goto(t, [th[t] EXCEPT !.status = status,
                    !.pc = IF status = "success" THEN "psf_delete" ELSE "psf_ret"])
  /\ UNCHANGED <<naming, fs, args, ffmpegOK, file_tasks, queue, results, run,
                 extDone, faults, hist>>

\* PsfDelete that reports the file as failed when its source is not removed
PsfDelete_FailsTask(t) ==
  /\ th[t].pc = "psf_delete"
  /\ TryRemove(t, th[t].input_file, "process_single_file", th[t].success, hist)
  /\ Goto(t, [th[t] EXCEPT !.pc = "psf_ret",
                 !.status = IF th[t].input_file \in hist'.delFailed
                            THEN "failed" ELSE @])
  /\ PrintLine(th[t].task)
  /\ UNCHANGED <<naming, args, ffmpegOK, file_tasks, queue, results,
                 print_lock, run, extDone>>

\* "if success: ... try: if os.path.exists(input_file): os.remove(input_file)"
PsfDelete(t) ==
  /\ th[t].pc = "psf_delete"
  /\ TryRemove(t, th[t].input_file, "process_single_file", th[t].success, hist)
  /\ Goto(t, [th[t] EXCEPT !.pc = "psf_ret"])
  /\ PrintLine(th[t].task)
  /\ UNCHANGED <<naming, args, ffmpegOK, file_tasks, queue, results,
                 print_lock, run, extDone>>

\* the last lines printed, the release of the lock and "return {status, file,
\* ...}": the task's future completes
PsfRet(t) ==
  /\ th[t].pc = "psf_ret"
  /\ PrintLine(th[t].task)
  /\ print_lock' = -1
  /\ th' = [th EXCEPT ![t] = Idle]
  /\ futures' = [futures EXCEPT ![th[t].task] =
                   [state |-> "done", status |-> th[t].status,
                    error |-> th[t].error]]
  /\ hist' = [hist EXCEPT !.outcome[th[t].input_file] = th[t].status]
  /\ UNCHANGED <<naming, fs, args, ffmpegOK, mainpc, exitCode, file_tasks,
                 queue, results, run, extDone, faults>>


\* ----------------------------------------------------------- bulk_compress
\* bulk_compress from "audio_files = self.get_mp3_files(...)" to the
\* submission of every task to the executor
BulkStart ==
  /\ mainpc = "bulk_start"
  /\ LET audio_files == get_mp3_files(fs)
     IN  IF audio_files = <<>>
         THEN /\ results' = [NoResults EXCEPT !.error =
                               <<"No MP3 or M4A files found in the directory">>]
              /\ mainpc' = "bulk_return"
              /\ UNCHANGED <<file_tasks, queue, futures, hist>>
         ELSE /\ results' = [NoResults EXCEPT !.total_files = Len(audio_files)]
              /\ file_tasks' = [i \in 1..Len(audio_files) |-> FileTask(audio_files, i)]
              /\ queue' = [i \in 1..Len(audio_files) |-> i]
              /\ futures' = [i \in 1..Len(audio_files) |-> Pending]
              /\ mainpc' = "bulk_wait"
              /\ hist' = [hist EXCEPT
                   !.psf = NoHist.psf, !.launches = NoHist.launches,
                   !.encFail = {}, !.outcome = NoHist.outcome, !.fs0 = fs,
                   !.empty0 = {InputPath(audio_files[i]) : i \in
                                 {j \in 1..Len(audio_files) :
                                    fs[InputPath(audio_files[j])].kind = "empty"}}]
  /\ UNCHANGED <<stdout, naming, fs, args, ffmpegOK, exitCode, th, print_lock,
                 run, extDone, faults>>

BulkRunning == mainpc \in {"bulk_wait", "bulk_errlock", "bulk_errprint"}

\* Take on a pool that starts a thread whatever max_workers is
Take_AnyThread(w) ==
  /\ BulkRunning
  /\ w >= 1
  /\ th[w].pc = "idle"
  /\ \A v \in 1..(w - 1) : th[v].pc # "idle"
  /\ queue # <<>>
  /\ LET i == Head(queue)
     IN  /\ th' = [th EXCEPT ![w] =
                     [Idle EXCEPT !.pc = "psf_out", !.task = i,
                                  !.input_file = file_tasks[i].input_file,
                                  !.output_file = file_tasks[i].output_file]]
         /\ futures' = [futures EXCEPT ![i].state = "running"]
         /\ hist' = [hist EXCEPT
                       !.psf[file_tasks[i].input_file] = @ + 1,
                       !.outAtStart =
                          IF fs[file_tasks[i].output_file].kind # "none"
                          THEN @ \cup {file_tasks[i].input_file} ELSE @]
  /\ queue' = Tail(queue)
  /\ UNCHANGED <<stdout, naming, fs, args, ffmpegOK, mainpc, exitCode,
                 file_tasks, results, print_lock, run, extDone, faults>>

\* ThreadPoolExecutor(max_workers): an idle worker thread takes the oldest
\* queued task and calls process_single_file(task). The worker threads are
\* interchangeable; the lowest-numbered idle one stands for whichever takes it
Take(w) ==
  /\ BulkRunning
  /\ w >= 1 /\ w <= args.workers
  /\ th[w].pc = "idle"
  /\ \A v \in 1..(w - 1) : th[v].pc # "idle"
  /\ queue # <<>>
  /\ LET i == Head(queue)
     IN  /\ th' = [th EXCEPT ![w] =
                     [Idle EXCEPT !.pc = "psf_out", !.task = i,
                                  !.input_file = file_tasks[i].input_file,
                                  !.output_file = file_tasks[i].output_file]]
         /\ futures' = [futures EXCEPT ![i].state = "running"]
         /\ hist' = [hist EXCEPT
                       !.psf[file_tasks[i].input_file] = @ + 1,
                       !.outAtStart =
                          IF fs[file_tasks[i].output_file].kind # "none"
                          THEN @ \cup {file_tasks[i].input_file} ELSE @]
  /\ queue' = Tail(queue)
  /\ UNCHANGED <<stdout, naming, fs, args, ffmpegOK, mainpc, exitCode,
                 file_tasks, results, print_lock, run, extDone, faults>>

\* BulkFold with the "skipped" branch of the fold left out
BulkFold_NoSkipCount(i) ==
  /\ mainpc = "bulk_wait"
  /\ i \in DOMAIN futures
  /\ futures[i].state \in {"done", "raised"}
  /\ LET f == futures[i]
         filename == file_tasks[i].filename
     IN  IF f.state = "done"
         THEN /\ results' =
                   IF f.status = "success"
                   THEN [results EXCEPT !.processed = @ + 1]
                   ELSE IF f.status = "failed"
                   THEN [results EXCEPT !.failed = @ + 1,
                           !.errors = Append(@, [file |-> filename,
                                                 error |-> f.error])]
                   ELSE results
              /\ UNCHANGED <<mainpc, th>>
         ELSE /\ results' = [results EXCEPT !.failed = @ + 1,
                   !.errors = Append(@, [file |-> filename,
                                error |-> <<"Unexpected error: ">> \o f.error])]
              /\ mainpc' = IF ~args.quiet THEN "bulk_errlock" ELSE "bulk_wait"
              /\ th' = IF ~args.quiet THEN [th EXCEPT ![0].task = i] ELSE th
  /\ futures' = [futures EXCEPT ![i].state = "folded"]
  /\ UNCHANGED <<stdout, naming, fs, args, ffmpegOK, exitCode, file_tasks,
                 queue, print_lock, run, extDone, faults, hist>>

\* BulkFold whose exception branch counts the file and records no error
BulkFold_NoErrorEntry(i) ==
  /\ mainpc = "bulk_wait"
  /\ i \in DOMAIN futures
  /\ futures[i].state \in {"done", "raised"}
  /\ LET f == futures[i]
         filename == file_tasks[i].filename
     IN  IF f.state = "done"
         THEN /\ results' =
                   IF f.status = "success"
                   THEN [results EXCEPT !.processed = @ + 1]
                   ELSE IF f.status = "skipped"
                   THEN [results EXCEPT !.skipped = @ + 1]
                   ELSE IF f.status = "failed"
                   THEN [results EXCEPT !.failed = @ + 1,
                           !.errors = Append(@, [file |-> filename,
                                                 error |-> f.error])]
                   ELSE results
              /\ UNCHANGED <<mainpc, th>>
         ELSE /\ results' = [results EXCEPT !.failed = @ + 1]
              /\ mainpc' = IF ~args.quiet THEN "bulk_errlock" ELSE "bulk_wait"
              /\ th' = IF ~args.quiet THEN [th EXCEPT ![0].task = i] ELSE th
  /\ futures' = [futures EXCEPT ![i].state = "folded"]
  /\ UNCHANGED <<stdout, naming, fs, args, ffmpegOK, exitCode, file_tasks,
                 queue, print_lock, run, extDone, faults, hist>>

\* one turn of "for future in as_completed(future_to_file)": the result or
\* the exception of a finished task is folded into results
BulkFold(i) ==
  /\ mainpc = "bulk_wait"
  /\ i \in DOMAIN futures
  /\ futures[i].state \in {"done", "raised"}
  /\ LET f == futures[i]
         filename == file_tasks[i].filename
     IN  IF f.state = "done"
         THEN /\ results' =
                   IF f.status = "success"
                   THEN [results EXCEPT !.processed = @ + 1]
                   ELSE IF f.status = "skipped"
                   THEN [results EXCEPT !.skipped = @ + 1]
                   ELSE IF f.status = "failed"
                   THEN [results EXCEPT !.failed = @ + 1,
                           !.errors = Append(@, [file |-> filename,
                                                 error |-> f.error])]
                   ELSE results
              /\ UNCHANGED <<mainpc, th>>
         ELSE /\ results' = [results EXCEPT !.failed = @ + 1,
                   !.errors = Append(@, [file |-> filename,
                                error |-> <<"Unexpected error: ">> \o f.error])]
              /\ mainpc' = IF ~args.quiet THEN "bulk_errlock" ELSE "bulk_wait"
              /\ th' = IF ~args.quiet THEN [th EXCEPT ![0].task = i] ELSE th
  /\ futures' = [futures EXCEPT ![i].state = "folded"]
  /\ UNCHANGED <<stdout, naming, fs, args, ffmpegOK, exitCode, file_tasks,
                 queue, print_lock, run, extDone, faults, hist>>

\* "if verbose: with self.print_lock: print(Unexpected error processing ...)"
BulkErrLock ==
  /\ mainpc = "bulk_errlock"
  /\ print_lock = -1
  /\ print_lock' = 0
  /\ PrintLine(th[0].task)
  /\ mainpc' = "bulk_errprint"
  /\ UNCHANGED <<naming, fs, args, ffmpegOK, exitCode, file_tasks, queue,
                 futures, results, th, run, extDone, faults, hist>>

\* "print(Continuing with next file...)" and the release of the lock
BulkErrPrint ==
  /\ mainpc = "bulk_errprint"
  /\ PrintLine(th[0].task)
  /\ print_lock' = -1
  /\ th' = [th EXCEPT ![0] = Idle]
  /\ mainpc' = "bulk_wait"
  /\ UNCHANGED <<naming, fs, args, ffmpegOK, exitCode, file_tasks, queue,
                 futures, results, run, extDone, faults, hist>>

\* as_completed is exhausted and the executor is shut down: "return results"
BulkJoin ==
  /\ mainpc = "bulk_wait"
  /\ \A i \in DOMAIN futures : futures[i].state = "folded"
  /\ mainpc' = "bulk_return"
  /\ UNCHANGED <<stdout, naming, fs, args, ffmpegOK, exitCode, file_tasks,
                 queue, futures, results, th, print_lock, run, extDone,
                 faults, hist>>

\* BulkReturn that also exits 1 when files failed
BulkReturn_FailOnErrors ==
  /\ mainpc = "bulk_return"
  /\ IF results.error # <<>> \/ results.failed > 0 THEN Exit(1) ELSE Exit(0)
  /\ UNCHANGED <<stdout, naming, fs, args, ffmpegOK, file_tasks, queue,
                 futures, results, th, print_lock, run, extDone, faults,
                 hist>>

\* main: "if 'error' in results: ... sys.exit(1)" else "sys.exit(0)"
BulkReturn ==
  /\ mainpc = "bulk_return"
  /\ IF results.error # <<>> THEN Exit(1) ELSE Exit(0)
  /\ UNCHANGED <<stdout, naming, fs, args, ffmpegOK, file_tasks, queue,
                 futures, results, th, print_lock, run, extDone, faults,
                 hist>>

\* main after compress_audio returned: "if success: if not verbose: ... try:
\* if os.path.exists(input_file): os.remove(input_file) ... sys.exit(0)
\* else: ... sys.exit(1)"
SingleAfter ==
  /\ mainpc = "single_call"
  /\ th[0].pc = "ca_done"
  /\ IF th[0].success
     THEN /\ IF args.quiet
             THEN TryRemove(0, args.input_file, "main", th[0].success,
                            [hist EXCEPT !.outcome[args.input_file] = "success"])
             ELSE /\ hist' = [hist EXCEPT !.outcome[args.input_file] = "success"]
                  /\ UNCHANGED <<fs, faults>>
          /\ Exit(0)
     ELSE /\ Exit(1)
          /\ hist' = [hist EXCEPT !.outcome[args.input_file] = "failed"]
          /\ UNCHANGED <<fs, faults>>
  /\ th' = [th EXCEPT ![0] = Idle]
  /\ UNCHANGED <<stdout, naming, args, ffmpegOK, file_tasks, queue, futures,
                 results, print_lock, run, extDone>>

\* ------------------------------------------------------------- environment
\* the input files of the tasks of the run
Discovered == {file_tasks[i].input_file : i \in DOMAIN file_tasks}

Transcoding == BulkRunning \/ mainpc = "single_call"

\* the history after an external change of p: the change races with p's task
\* when the task has neither started its encoder nor ended
HistRace(p) ==
  IF /\ p \in Discovered
     /\ hist.launches[p] = 0
     /\ hist.outcome[p] = ""
  THEN [hist EXCEPT !.raced = @ \cup {p}]
  ELSE hist

\* an external actor removes an input file while files are being processed
ExtRemove(p) ==
  /\ Transcoding
  /\ CanFault
  /\ p \in InputPaths \ extDone
  /\ Exists(fs, p)
  /\ fs' = [fs EXCEPT ![p] = NoFile]
  /\ extDone' = extDone \cup {p}
  /\ hist' = HistRace(p)
  /\ UNCHANGED <<stdout, naming, args, ffmpegOK, mainpc, exitCode, file_tasks,
                 queue, futures, results, th, print_lock, run, faults>>

\* an external actor truncates an input file to zero bytes
ExtTruncate(p) ==
  /\ Transcoding
  /\ CanFault
  /\ p \in InputPaths \ extDone
  /\ Exists(fs, p) /\ ~IsEmpty(fs, p)
  /\ fs' = [fs EXCEPT ![p] = EmptyFile]
  /\ extDone' = extDone \cup {p}
  /\ hist' = HistRace(p)
  /\ UNCHANGED <<stdout, naming, args, ffmpegOK, mainpc, exitCode, file_tasks,
                 queue, futures, results, th, print_lock, run, faults>>

\* the same bulk command is run again on the directory after a bulk run that
\* ran to completion
Rerun ==
  /\ mainpc = "exit" /\ exitCode = 0
  /\ args.bulk_compress
  /\ run < MaxRuns
  /\ run' = run + 1
  /\ mainpc' = "check_ffmpeg"
  /\ exitCode' = -1
  /\ file_tasks' = <<>>
  /\ queue' = <<>>
  /\ futures' = <<>>
  /\ results' = NoResults
  /\ hist' = [NoHist EXCEPT
       !.prevOK = hist.prevOK \cup
                    {p \in InputPaths : hist.outcome[p] = "success"},
       !.prevFailed = results.failed]
  /\ stdout' = NoOutput
  /\ UNCHANGED <<naming, fs, args, ffmpegOK, th, print_lock, extDone, faults>>

\* ----------------------------------------------------------- specification
Next ==
  \/ CheckFfmpeg
  \/ Dispatch
  \/ SingleValidate
  \/ SingleAfter
  \/ BulkStart
  \/ \E w \in Threads : Take(w)
  \/ \E i \in 1..NameCount : BulkFold(i)
  \/ BulkErrLock
  \/ BulkErrPrint
  \/ BulkJoin
  \/ BulkReturn
  \/ \E t \in Threads : CaExists(t)
  \/ \E t \in Threads : CaSize(t)
  \/ \E t \in Threads : CaProbe(t)
  \/ \E t \in Threads : CaLaunch(t)
  \/ \E t \in Threads : CaExit(t)
  \/ \E t \in Threads : CaCheck(t)
  \/ \E t \in Threads : CaDelete(t)
  \/ \E t \in Threads : PsfOut(t)
  \/ \E t \in Threads : PsfIn(t)
  \/ \E t \in Threads : PsfSize(t)
  \/ \E t \in Threads : PsfLock(t)
  \/ \E t \in Threads : PsfDelete(t)
  \/ \E t \in Threads : PsfRet(t)
  \/ \E p \in InputPaths : ExtRemove(p)
  \/ \E p \in InputPaths : ExtTruncate(p)
  \/ Rerun

Spec == Init /\ [][Next]_vars

TypeOK ==
  /\ mainpc \in {"check_ffmpeg", "dispatch", "single_validate", "single_call",
                 "bulk_start", "bulk_wait", "bulk_errlock", "bulk_errprint",
                 "bulk_return", "exit"}
  /\ exitCode \in {-1, 0, 1}
  /\ print_lock \in {-1} \cup Threads
  /\ run \in 1..MaxRuns


\* -------------------------------------------- bulk runs under fair scheduling
\* a verbose bulk invocation with N >= 2 workers on a directory of M > N
\* candidates
InitLive ==
  /\ Init
  /\ args.bulk_compress /\ ~args.quiet
  /\ ffmpegOK
  /\ args.workers >= 2 /\ args.workers <= MaxWorkers
  /\ Len(get_mp3_files(fs)) > args.workers

\* the steps of the program in a bulk run
LiveProgram ==
  \/ CheckFfmpeg
  \/ Dispatch
  \/ BulkStart
  \/ \E w \in Threads : Take(w)
  \/ \E i \in 1..NameCount : BulkFold(i)
  \/ BulkErrLock
  \/ BulkErrPrint
  \/ BulkJoin
  \/ BulkReturn
  \/ \E t \in Threads : CaExists(t)
  \/ \E t \in Threads : CaSize(t)
  \/ \E t \in Threads : CaProbe(t)
  \/ \E t \in Threads : CaLaunch(t)
  \/ \E t \in Threads : CaExit(t)
  \/ \E t \in Threads : CaCheck(t)
  \/ \E t \in Threads : PsfOut(t)
  \/ \E t \in Threads : PsfIn(t)
  \/ \E t \in Threads : PsfSize(t)
  \/ \E t \in Threads : PsfLock(t)
  \/ \E t \in Threads : PsfDelete(t)
  \/ \E t \in Threads : PsfRet(t)

LiveNext ==
  \/ LiveProgram
  \/ \E p \in InputPaths : ExtRemove(p)
  \/ \E p \in InputPaths : ExtTruncate(p)

\* threads that can run do run, and every started encoder exits; the
\* environment's events are not forced
LiveSpec == InitLive /\ [][LiveNext]_vars /\ WF_vars(LiveProgram)

\* ------------------------------------------- the naming of one discovered file
\* the pieces filenames are made of: letters of both cases, a digit, a
\* character that is neither, and the text of the two extensions
NamePieces == { <<"A">>, <<"b">>, <<"1">>, <<"-">>, ExtMp3, ExtM4a }

RECURSIVE StemsUpTo(_)
StemsUpTo(n) ==
  IF n = 0 THEN { <<>> }
  ELSE LET shorter == StemsUpTo(n - 1)
       IN  shorter \cup {s \o p : s \in shorter, p \in NamePieces}

\* the filenames get_mp3_files can return: "*.mp3" and "*.m4a" match the names
\* that end with the extension and do not start with a dot
TestNames ==
  {n \in {s \o e : s \in StemsUpTo(MaxPieces), e \in {ExtMp3, ExtM4a}} :
     n[1] # "."}

\* bulk_compress is about to prepare the task of some discovered filename
NamingInit ==
  /\ naming \in [filename : TestNames, base_name : {<<>>},
                 output_file : {NoPath}, prepared : {FALSE}]
  /\ fs = [p \in Paths |-> NoFile]
  /\ args = [bulk_compress |-> TRUE, workers |-> MinWorkersAllowed,
             quiet |-> FALSE, input_file |-> NoPath, output_file |-> NoPath]
  /\ ffmpegOK = TRUE
  /\ mainpc = "bulk_start"
  /\ exitCode = -1
  /\ file_tasks = <<>>
  /\ queue = <<>>
  /\ futures = <<>>
  /\ results = NoResults
  /\ th = [t \in Threads |-> Idle]
  /\ print_lock = -1
  /\ run = 1
  /\ extDone = {}
  /\ faults = 0
  /\ hist = NoHist
  /\ stdout = NoOutput

\* one turn of "for i, input_file in enumerate(audio_files, 1)": base_name =
\* self.extract_base_name(filename), output_dir and output_file
PrepareTask ==
  /\ ~naming.prepared
  /\ naming.filename # <<>>
  /\ naming' = [naming EXCEPT
                  !.base_name = extract_base_name(naming.filename),
                  !.output_file = OutputPath(naming.filename),
                  !.prepared = TRUE]
  /\ UNCHANGED <<stdout, fs, args, ffmpegOK, mainpc, exitCode, file_tasks,
                 queue, futures, results, th, print_lock, run, extDone,
                 faults, hist>>

NamingNext == PrepareTask

NamingSpec == NamingInit /\ [][NamingNext]_vars

\* ------------------------------------------------------------------ claims
\* the report of a bulk run has been returned by bulk_compress
Reported ==
  /\ args.bulk_compress
  /\ mainpc \in {"bulk_return", "exit"}
  /\ results.error = <<>>
  /\ results.total_files > 0


\* C1: no existing output file is ever overwritten: whenever the encoder
\* writes its output, in single-file mode or in a bulk run, no file exists at
\* the output path at that moment.
C1_NeverOverwrites == \A w \in hist.writes : ~w.existed

\* C2: in a bulk run with N >= 2 workers and M > N discovered files where
\* every encoder invocation terminates, the run eventually returns,
\* process_single_file has run exactly once for each of the M files and
\* processed + skipped + failed of the report equals M.
C2_AllProcessedOnce ==
  (mainpc = "bulk_wait" /\ args.workers >= 2 /\ Len(file_tasks) > args.workers)
    ~> /\ mainpc = "exit" /\ exitCode = 0
       /\ \A p \in Discovered : hist.psf[p] = 1
       /\ results.processed + results.skipped + results.failed = Len(file_tasks)

C2_Witness ==
  /\ mainpc = "exit" /\ exitCode = 0
  /\ args.workers >= 2 /\ Len(file_tasks) > args.workers
  /\ results.processed >= 2
  /\ results.processed + results.skipped + results.failed = Len(file_tasks)

\* C3: when the encoder invocation for a file A fails in a bulk run (non-zero
\* exit, no output produced, or an exception in the worker), every discovered
\* file has been processed to an outcome when the report is returned, and the
\* report's error list has an entry with A's filename and a non-empty message.
C3_FailureIsolated ==
  Reported =>
    \A a \in hist.encFail :
      /\ \E k \in 1..Len(results.errors) :
           /\ results.errors[k].file = a[1]
           /\ results.errors[k].error # <<>>
      /\ \A i \in DOMAIN file_tasks :
           /\ futures[i].state = "folded"
           /\ hist.outcome[file_tasks[i].input_file] # ""

C3_Witness ==
  /\ Reported
  /\ \E a \in hist.encFail : \E b \in Discovered :
       /\ hist.launches[a] = 1
       /\ hist.outcome[b] = "success"

\* C4: an input file that is zero bytes when discovered (and is not changed by
\* an external actor) gets outcome Skipped, never Failed, and the encoder is
\* never invoked on it, whether or not its output exists.
C4_EmptyIsSkipped ==
  \A p \in hist.empty0 \ extDone :
    /\ hist.launches[p] = 0
    /\ hist.outcome[p] \in {"", "skipped"}
    /\ Reported => hist.outcome[p] = "skipped"

C4_Witness ==
  /\ Reported
  /\ \E p \in hist.empty0 \ extDone :
       /\ ~Exists(hist.fs0, OutputPath(p[1]))
       /\ hist.outcome[p] = "skipped"
       /\ \E q \in Discovered : hist.launches[q] = 1


\* C5 as stated: whatever the first run's outcome, a second bulk run on the
\* same directory reports processed = 0.
C5_SecondRunNoSuccess == (run >= 2 /\ Reported) => results.processed = 0

\* C5 amended: a second bulk run never starts the encoder on a file that ended
\* Success in an earlier run, and it reports processed = 0 whenever the
\* previous run reported failed = 0.
C5_SecondRunSkipsDone ==
  run >= 2 =>
    /\ \A p \in hist.prevOK : hist.launches[p] = 0
    /\ (Reported /\ hist.prevFailed = 0) => results.processed = 0

C5_Witness ==
  /\ run >= 2 /\ Reported /\ hist.prevFailed = 0
  /\ results.processed = 0
  /\ \E p \in hist.prevOK \cap Discovered : hist.outcome[p] = "skipped"

\* the outcome of the task of input p when it is the only task of the run,
\* with a deterministic encoder, on the directory f
Alone(f, p) ==
  IF Exists(f, OutputPath(p[1])) \/ f[p].kind = "empty" THEN "skipped"
  ELSE IF f[p].kind = "audio" /\ f[p].good THEN "success"
  ELSE "failed"

\* C6: with a deterministic encoder and no external change of the file
\* system, the outcome of each task of a bulk run is the one it has on its
\* own, whatever the other tasks do and in whatever order they complete.
C6_OutcomeIndependent ==
  (args.bulk_compress /\ faults = 0 /\ extDone = {}) =>
    \A p \in Discovered :
      hist.outcome[p] # "" => hist.outcome[p] = Alone(hist.fs0, p)

ExitZero == {"ok", "nooutput"}

\* C7 as stated: compress_audio never deletes the source; every deletion is
\* done by the caller after it has seen the success result, at most once per
\* successful transcode.
C7_InvokerNeverDeletes ==
  /\ \A d \in hist.dels : d.by # "compress_audio" /\ d.observed
  /\ \A d1, d2 \in hist.dels :
       (d1.thread = d2.thread /\ d1.task = d2.task) => d1 = d2

\* C7 amended: compress_audio deletes the source itself only in single-file
\* mode (delete_source=True), never in a bulk run, where the caller deletes
\* after it has seen the success result; in every mode a source is deleted
\* only after the encoder exited zero and the output exists, and at most one
\* deletion is performed per successful transcode.
C7_DeletionAfterSuccess ==
  /\ \A d \in hist.dels :
       /\ d.enc \in ExitZero /\ d.out
       /\ d.by = "compress_audio" => (d.thread = 0 /\ ~args.bulk_compress)
       /\ d.by # "compress_audio" => d.observed
  /\ \A d1, d2 \in hist.dels :
       (d1.thread = d2.thread /\ d1.task = d2.task) => d1 = d2

C7_Witness ==
  /\ mainpc = "exit" /\ exitCode = 0
  /\ ~args.bulk_compress /\ args.quiet
  /\ \E d \in hist.dels : d.by = "compress_audio" /\ d.path = args.input_file

\* C8: in a bulk run a source file is removed only by process_single_file of
\* its own task, after that task's encoder exited zero and with its output
\* file existing; a task that ended Skipped or Failed has deleted nothing and
\* its source is still in place.
C8_BulkDeletionScoped ==
  args.bulk_compress =>
    /\ \A d \in hist.dels :
         /\ d.by = "process_single_file"
         /\ d.task \in DOMAIN file_tasks
         /\ d.path = file_tasks[d.task].input_file
         /\ d.enc \in ExitZero /\ d.out
    /\ \A i \in DOMAIN file_tasks :
         hist.outcome[file_tasks[i].input_file] \in {"skipped", "failed"} =>
           /\ \A d \in hist.dels : d.task # i
           /\ file_tasks[i].input_file \notin extDone =>
                Exists(fs, file_tasks[i].input_file)

C8_Witness ==
  /\ Reported
  /\ \E d \in hist.dels : ~Exists(fs, d.path)
  /\ \E p \in Discovered : hist.outcome[p] = "failed" /\ Exists(fs, p)
  /\ \E p \in Discovered : hist.outcome[p] = "skipped" /\ Exists(fs, p)

\* a fatal precondition of the run fails: the encoder probe, the worker count
\* of a bulk run, the positional arguments of single-file mode, or discovery
BadWorkers ==
  /\ args.bulk_compress
  /\ args.workers \notin MinWorkersAllowed..MaxWorkersAllowed

MissingArgs ==
  /\ ~args.bulk_compress
  /\ (args.input_file = NoPath \/ args.output_file = NoPath)

ZeroCandidates ==
  /\ args.bulk_compress
  /\ \/ results.error # <<>>
     \/ /\ mainpc \in {"check_ffmpeg", "dispatch", "bulk_start"}
        /\ get_mp3_files(fs) = <<>>

Fatal == ~ffmpegOK \/ BadWorkers \/ MissingArgs \/ ZeroCandidates

\* C9: in a run where a fatal precondition fails (encoder probe fails, worker
\* count of a bulk run outside 1..8, positional arguments of single-file mode
\* missing, no candidate file discovered) no task is ever dispatched and the
\* encoder is never invoked; the run ends with exit status 1.
C9_NoWorkOnFatal ==
  Fatal =>
    /\ queue = <<>>
    /\ \A t \in Threads : th[t].pc = "idle"
    /\ \A p \in InputPaths : hist.psf[p] = 0 /\ hist.launches[p] = 0
    /\ hist.writes = {} /\ hist.dels = {}
    /\ mainpc = "exit" => exitCode = 1

C9_Witness ==
  /\ mainpc = "exit" /\ exitCode = 1
  /\ ffmpegOK /\ ~BadWorkers /\ ZeroCandidates
  /\ run >= 2

\* C10: main exits 0 after a bulk run that ran to completion, whatever the
\* number of failed files, and after a successful single-file transcode; it
\* exits non-zero when the encoder is unavailable, positional arguments of
\* single-file mode are missing, the worker count of a bulk run is invalid,
\* bulk discovery finds no candidate, or the single-file transcode fails.
C10_ExitCodes ==
  mainpc = "exit" =>
    /\ (Reported /\ \A i \in DOMAIN futures : futures[i].state = "folded")
         => exitCode = 0
    /\ (~args.bulk_compress /\ ~MissingArgs
          /\ hist.outcome[args.input_file] = "success") => exitCode = 0
    /\ Fatal => exitCode # 0
    /\ (~args.bulk_compress /\ ~MissingArgs
          /\ hist.outcome[args.input_file] = "failed") => exitCode # 0

C10_Witness ==
  /\ mainpc = "exit" /\ exitCode = 0
  /\ Reported /\ results.failed >= 1 /\ results.processed >= 1

\* no file lies at an output path of the run when the files are discovered
\* (an output path that is itself a discovered input is not a produced output)
NoOutputsAtStart ==
  \A q \in OutputPaths \ InputPaths : ~Exists(hist.fs0, q)

\* C11: in a bulk run over a directory with no previously produced outputs a
\* discovered file is Skipped only if its input is empty or missing, and every
\* discovered input that is non-empty (and stays so) is passed to the encoder
\* exactly once and ends Success or Failed.
C11_SkippedOnlyIfEmptyOrMissing ==
  (args.bulk_compress /\ NoOutputsAtStart) =>
    \A p \in Discovered :
      hist.outcome[p] # "" =>
        /\ hist.outcome[p] = "skipped" =>
             (hist.fs0[p].kind = "empty" \/ p \in extDone)
        /\ (hist.fs0[p].kind = "audio" /\ p \notin extDone) =>
             /\ hist.launches[p] = 1
             /\ hist.outcome[p] \in {"success", "failed"}

\* the base name as specified: one supported extension is stripped, only as an
\* exact trailing suffix; the result is the longest leading run of letters if
\* there is one, otherwise the stripped name without its trailing digits
StripSuffix(filename) ==
  IF EndsWith(filename, ExtMp3) \/ EndsWith(filename, ExtM4a)
  THEN SubSeq(filename, 1, Len(filename) - 4)
  ELSE filename

SpecifiedBaseName(filename) ==
  LET stem == StripSuffix(filename)
      n == LetterRun(stem, 1)
  IN  IF n > 0 THEN SubSeq(stem, 1, n) ELSE StripTrailingDigits(stem)

\* C12: extract_base_name agrees with the specified algorithm for every
\* filename over the bounded alphabet: the base name computed for a filename is
\* the one the specified algorithm gives.
C12_BaseNameAsSpecified ==
  naming.prepared => naming.base_name = SpecifiedBaseName(naming.filename)

\* the filename with its extension normalised: a trailing .m4a becomes .mp3
NormalizedName(filename) ==
  IF EndsWith(filename, ExtM4a) THEN StripSuffix(filename) \o ExtMp3
  ELSE filename

\* C13: the output path built for a discovered filename is source_dir /
\* base_name(filename) / filename with the extension normalised: an .m4a
\* input yields a name ending in .mp3 in the directory named by its base
\* name, and an .mp3 input keeps its filename unchanged.
C13_OutputPathNormalized ==
  naming.prepared =>
    LET out == naming.output_file
    IN  /\ out = PathJoin(PathJoin(<<>>, naming.base_name),
                          NormalizedName(naming.filename))
        /\ EndsWith(naming.filename, ExtM4a) => EndsWith(out[Len(out)], ExtMp3)
        /\ EndsWith(naming.filename, ExtMp3) => out[Len(out)] = naming.filename

\* thread t is inside compress_audio, from its first test to its return
InCompressAudio(t) ==
  th[t].pc \in {"ca_exists", "ca_size", "ca_probe", "ca_run", "ca_wait",
                "ca_check", "ca_delete"}

\* C14: the print lock is never held by a worker while that worker's encoder
\* invocation is running: in every reachable state a worker that is inside
\* compress_audio does not hold print_lock.
C14_NoLockWhileEncoding ==
  \A w \in 1..MaxWorkers : InCompressAudio(w) => print_lock # w

\* as many encoders as there are workers run at the same time
C14_Witness ==
  /\ args.workers = MaxWorkers
  /\ \A w \in 1..MaxWorkers : th[w].pc = "ca_wait" /\ print_lock # w

\* C15: the progress output of one task is emitted as one unit: in every
\* interleaving of the workers and of the orchestrator's error print, the
\* lines printed for a task's result are contiguous in the output stream,
\* never separated by lines of another task.
C15_TaskOutputContiguous == ~stdout.mixed

\* the orchestrator is between the two lines of its error print while a
\* worker waits to print its result and another task's lines are in the stream
C15_Witness ==
  /\ mainpc = "bulk_errprint"
  /\ \E w \in 1..MaxWorkers : th[w].pc = "psf_lock"
  /\ Cardinality(stdout.seen) >= 2
  /\ ~stdout.mixed

\* the encoder processes that are running
RunningEncoders == {t \in Threads : th[t].pc = "ca_wait"}

\* C16: in every reachable state of a bulk run the number of encoder
\* processes running at the same time is at most the worker count, and each
\* worker runs one task to completion before taking another: the task of a
\* worker changes only when it takes one while idle or when its task's future
\* completes.
C16_PoolBoundsEncoders ==
  /\ [](args.bulk_compress => Cardinality(RunningEncoders) <= args.workers)
  /\ [][\A w \in 1..MaxWorkers :
          th'[w].task # th[w].task =>
            IF th[w].task = 0
            THEN th[w].pc = "idle" /\ futures'[th'[w].task].state = "running"
            ELSE /\ th'[w].task = 0
                 /\ futures'[th[w].task].state \in {"done", "raised"}]_vars

\* the one worker of a pool of one runs the encoder of a later task after it
\* completed an earlier one, and no other thread has taken a task
C16_Witness ==
  /\ args.bulk_compress /\ args.workers = 1
  /\ RunningEncoders = {1}
  /\ \E i \in DOMAIN futures :
       i < th[1].task /\ futures[i].state \in {"done", "folded"}
  /\ \A w \in 2..MaxWorkers : th[w].pc = "idle"

\* C17: process_single_file tests the output first and stops there: a task
\* whose output exists when it starts ends Skipped, with no encoder invocation
\* and no deletion of its source, also when its input is missing or empty at
\* the same time.
C17_OutputCheckFirst ==
  \A i \in DOMAIN file_tasks :
    file_tasks[i].input_file \in hist.outAtStart =>
      /\ hist.launches[file_tasks[i].input_file] = 0
      /\ hist.outcome[file_tasks[i].input_file] \in {"", "skipped"}
      /\ \A d \in hist.dels : d.task # i
      /\ futures[i].state \in {"done", "folded"} =>
           /\ hist.outcome[file_tasks[i].input_file] = "skipped"
           /\ futures[i].status = "skipped"

\* a task that found its output in place and an empty or missing input has
\* ended Skipped, in a run that also started an encoder
C17_Witness ==
  /\ Reported
  /\ \E p \in hist.outAtStart :
       /\ OutputPath(p[1]) # p
       /\ ~Exists(fs, p) \/ fs[p].kind = "empty"
       /\ hist.outcome[p] = "skipped"
  /\ \E q \in Discovered : hist.launches[q] = 1

\* C18: race tolerance: when the input of a task is removed or truncated to
\* zero bytes by an external actor after discovery and before the task's
\* encoder is invoked, the task's outcome is Skipped, never Failed.
C18_RaceIsSkipped ==
  args.bulk_compress =>
    \A p \in hist.raced : hist.outcome[p] \in {"", "skipped"}

\* C19: a failure of the metadata probe, of any kind, before or after
\* encoding, never changes the result of a transcode: no task fails with the
\* probe's error, and a task whose encoder exited zero and produced an output
\* is Success and its source is deleted (unless os.remove itself failed).
C19_ProbeFailureHarmless ==
  /\ \A i \in DOMAIN futures : futures[i].error # ProbeError
  /\ \A w \in hist.writes :
       /\ hist.outcome[w.input] \in {"", "success"}
       /\ hist.outcome[w.input] = "success" =>
            (~Exists(fs, w.input) \/ faults > 0)

\* C20: a failed source deletion after a successful transcode does not change
\* the outcome: when the encoder succeeded and removing the source raised an
\* error, or the source was already gone, the task's outcome is Success and
\* the report counts it in processed and lists no error for it.
C20_DeletionFailureKeepsSuccess ==
  \A p \in hist.delFailed :
    /\ hist.outcome[p] \in {"", "success"}
    /\ Reported =>
         /\ hist.outcome[p] = "success"
         /\ \A i \in DOMAIN file_tasks :
              file_tasks[i].input_file = p =>
                /\ futures[i].status = "success"
                /\ \A k \in 1..Len(results.errors) :
                     results.errors[k].file # file_tasks[i].filename
         /\ results.processed =
              Cardinality({i \in DOMAIN futures : futures[i].status = "success"})

\* os.remove raised after a successful transcode: the source is still in
\* place and the report counts the file as processed
C20_Witness ==
  /\ Reported
  /\ \E p \in hist.delFailed \cap Discovered :
       /\ fs[p].kind = "audio"
       /\ hist.outcome[p] = "success"
       /\ Exists(fs, OutputPath(p[1]))
  /\ results.processed >= 1 /\ results.failed = 0

\* the tasks whose result or exception has been folded into the report
Folded == {i \in DOMAIN futures : futures[i].state = "folded"}

\* the tasks of the run that ended with outcome o
EndedWith(o) ==
  {i \in DOMAIN file_tasks : hist.outcome[file_tasks[i].input_file] = o}

\* C21: the bulk report is folded by the orchestrator thread only, with no
\* lost update: at every point processed + skipped + failed equals the number
\* of completed tasks folded so far and is at most total_files, the length of
\* the errors list equals failed, on return each counter equals the number of
\* tasks that ended with that outcome, and no step of a worker thread changes
\* the report.
C21_ReportFoldedByOrchestrator ==
  /\ [](/\ results.processed + results.skipped + results.failed
             = Cardinality(Folded)
        /\ Cardinality(Folded) <= results.total_files
        /\ Len(results.errors) = results.failed
        /\ Reported =>
             /\ results.processed = Cardinality(EndedWith("success"))
             /\ results.skipped = Cardinality(EndedWith("skipped"))
             /\ results.failed = Cardinality(EndedWith("failed")))
  /\ [][results' # results =>
          \A w \in 1..MaxWorkers : th'[w] = th[w]]_vars

\* a report returned with one file of each outcome, one of the failures being
\* an exception of the worker
C21_Witness ==
  /\ Reported
  /\ results.processed >= 1 /\ results.skipped >= 1 /\ results.failed >= 1
  /\ \E k \in 1..Len(results.errors) :
       SubSeq(results.errors[k].error, 1, 1) = <<"Unexpected error: ">>

\* C22: no audio content is lost by a bulk run: in every reachable state, for
\* each discovered input file (that no external actor changed) either the
\* source file still exists or the file at its task's output path holds the
\* encoding of that very source; also for two inputs that differ only in
\* their extension.
C22_NoAudioLost ==
  args.bulk_compress =>
    \A i \in DOMAIN file_tasks :
      LET p == file_tasks[i].input_file
          o == file_tasks[i].output_file
      IN  p \notin extDone =>
            \/ Exists(fs, p)
            \/ fs[o].kind = "enc" /\ fs[o].src = p

====
